---- MODULE Spec2Model ----
(***************************************************************************)
(* AMP Auto Shutdown: the idle-detection state machine (ShutdownDecider)   *)
(* and the polling loop (Monitor) of src/src/amp_autoshutdown/monitor.py.  *)
(*                                                                         *)
(* Time is counted in seconds.  `now` is the UTC clock read by             *)
(* datetime.utcnow(); the local wall clock read by datetime.now() is       *)
(* LocalStart + now seconds after Monday 00:00:00.                         *)
(***************************************************************************)
EXTENDS Integers, Sequences, FiniteSets, TLC

\* ------------------------------------------------------------- bounds
\* The clock stops advancing at MaxTime seconds.
MaxTime == 240
\* One step of the clock, in seconds.
TickSeconds == 30
\* Player counts reported for an instance range over 0..MaxCount.
MaxCount == 2
\* A loaded configuration differs from DefaultConfig in at most MaxChanged fields.
MaxChanged == 2

\* ---------------------------------------------------- program constants
SecondsPerMinute == 60
SecondsPerDay == 86400
\* max(5, config.poll_interval_seconds)
MinWaitSeconds == 5
\* max(1, config.idle_delay_minutes)
MinIdleMinutes == 1
\* Local wall clock at now = 0: Saturday 23:58:00, in seconds after Monday 00:00:00.
LocalStart == 5 * SecondsPerDay + (23 * 60 + 58) * SecondsPerMinute

Max(a, b) == IF a >= b THEN a ELSE b

Instances == {"a", "b"}

DayNames == <<"mon", "tue", "wed", "thu", "fri", "sat", "sun">>

\* ------------------------------------------------------ configuration
Digits == <<"0", "1", "2", "3", "4", "5", "6", "7", "8", "9">>

IsDigit(c) == \E i \in 1..10 : Digits[i] = c

DigitValue(c) == (CHOOSE i \in 1..10 : Digits[i] = c) - 1

\* The number written by a sequence of one or two digit characters, -1 otherwise.
TwoDigits(s) ==
    IF Len(s) = 1 /\ IsDigit(s[1]) THEN DigitValue(s[1])
    ELSE IF Len(s) = 2 /\ IsDigit(s[1]) /\ IsDigit(s[2])
         THEN 10 * DigitValue(s[1]) + DigitValue(s[2])
         ELSE -1

\* datetime.strptime(s, "%H:%M").time() as seconds after midnight; -1 stands for
\* the ValueError raised when s is not H[H]:M[M] with hour 0..23 and minute 0..59.
\* A time string is a sequence of characters.
StrpTime(s) ==
    LET colons == {i \in 1..Len(s) : s[i] = ":"}
    IN  IF Cardinality(colons) # 1 THEN -1
        ELSE LET k == CHOOSE i \in colons : TRUE
                 h == TwoDigits(SubSeq(s, 1, k - 1))
                 m == TwoDigits(SubSeq(s, k + 1, Len(s)))
             IN  IF h < 0 \/ h > 23 \/ m < 0 \/ m > 59 THEN -1
                 ELSE (h * 60 + m) * SecondsPerMinute

\* str.lower() on the day names a window may carry.
Lower(d) ==
    CASE d = "Mon" \/ d = "MON" -> "mon"
      [] d = "Tue" \/ d = "TUE" -> "tue"
      [] d = "Wed" \/ d = "WED" -> "wed"
      [] d = "Thu" \/ d = "THU" -> "thu"
      [] d = "Fri" \/ d = "FRI" -> "fri"
      [] d = "Sat" \/ d = "SAT" -> "sat"
      [] d = "Sun" \/ d = "SUN" -> "sun"
      [] OTHER -> d

\* MaintenanceWindow values the configuration file may hold.
WrapWindow == [days |-> <<"*">>, start |-> <<"2", "3", ":", "5", "9">>,
               end |-> <<"0", "0", ":", "0", "0">>]

WindowLists == {<< >>, <<WrapWindow>>}

\* per_instance_thresholds: a mapping from some instances to a threshold.
NoThresholds == [i \in {} |-> 0]

PerInstanceChoices == {NoThresholds, [i \in {"b"} |-> 1]}

ConfigFields == {"poll_interval_seconds", "idle_delay_minutes",
                 "global_player_threshold", "per_instance_thresholds",
                 "selected_instances", "maintenance_windows", "dry_run"}

DefaultConfig ==
    [poll_interval_seconds |-> 60,
     idle_delay_minutes |-> 2,
     global_player_threshold |-> 0,
     per_instance_thresholds |-> NoThresholds,
     selected_instances |-> <<"a", "b">>,
     maintenance_windows |-> << >>,
     dry_run |-> FALSE]

AllConfigs ==
    [poll_interval_seconds : {0, 60},
     idle_delay_minutes : {0, 2},
     global_player_threshold : {0, 2},
     per_instance_thresholds : PerInstanceChoices,
     selected_instances : {<< >>, <<"a", "b">>},
     maintenance_windows : WindowLists,
     dry_run : BOOLEAN]

\* The Config values config_manager.load() may return.
Configs ==
    {cfg \in AllConfigs :
        Cardinality({f \in ConfigFields : cfg[f] # DefaultConfig[f]}) <= MaxChanged}

\* Every mapping from a set of instances to a player count.
CountMaps == UNION {[S -> 0..MaxCount] : S \in SUBSET Instances}

\* ------------------------------------------- the vocabulary of the claims
\* The effective threshold of instance i under configuration cfg.
EffectiveThreshold(cfg, i) ==
    IF i \in DOMAIN cfg.per_instance_thresholds
    THEN cfg.per_instance_thresholds[i]
    ELSE cfg.global_player_threshold

\* Some observed count is strictly greater than its effective threshold.
SomeAbove(cfg, counts) ==
    \E i \in DOMAIN counts : counts[i] > EffectiveThreshold(cfg, i)

\* The mapping is not empty and every count is at or below its effective threshold.
AllAtOrBelow(cfg, counts) ==
    /\ DOMAIN counts # {}
    /\ \A i \in DOMAIN counts : counts[i] <= EffectiveThreshold(cfg, i)

\* ---------------------------------------------------- ShutdownDecider
\* Monitor.decider before run() constructs it.
None == [none |-> TRUE]

ShutdownState(t) == [last_activity |-> t, shutdown_triggered |-> FALSE]

\* The idle delay taken from the config as it is.
idle_delta_of_unclamped(cfg) == cfg.idle_delay_minutes * SecondsPerMinute

\* update_config: timedelta(minutes=max(1, config.idle_delay_minutes))
idle_delta_of(cfg) == Max(MinIdleMinutes, cfg.idle_delay_minutes) * SecondsPerMinute

\* update_config as a reconstruction of the decider would do it: the latch is lost.
update_config_reset(d, cfg) ==
    [state |-> [d.state EXCEPT !.shutdown_triggered = FALSE], config |-> cfg,
     idle_delta |-> idle_delta_of(cfg)]

\* ShutdownDecider.update_config: the decider d with cfg as its configuration.
update_config(d, cfg) ==
    [state |-> d.state, config |-> cfg, idle_delta |-> idle_delta_of(cfg)]

\* ShutdownDecider.__init__ at clock t.
NewDecider(cfg, t) == update_config([state |-> ShutdownState(t)], cfg)

\* _threshold_for reading the global threshold only.
threshold_for_global(d, name) == d.config.global_player_threshold

\* ShutdownDecider._threshold_for
threshold_for(d, name) ==
    IF name \in DOMAIN d.config.per_instance_thresholds
    THEN d.config.per_instance_thresholds[name]
    ELSE d.config.global_player_threshold

\* above_threshold with a count equal to its threshold taken as activity.
above_threshold_inclusive(d, counts) ==
    \E name \in DOMAIN counts : counts[name] >= threshold_for(d, name)

\* above_threshold that takes a selected instance without a count for active.
above_threshold_absent_active(d, counts) ==
    \/ \E name \in DOMAIN counts : counts[name] > threshold_for(d, name)
    \/ \E i \in 1..Len(d.config.selected_instances) :
          d.config.selected_instances[i] \notin DOMAIN counts

\* register_observation: any(count > self._threshold_for(name) ...)
above_threshold(d, counts) ==
    \E name \in DOMAIN counts : counts[name] > threshold_for(d, name)

\* register_observation without the latch test: level-triggered.
register_observation_level(d, counts, t) ==
    IF DOMAIN counts = {}
    THEN [decider |-> d, ret |-> FALSE]
    ELSE IF above_threshold(d, counts)
    THEN [decider |-> [d EXCEPT !.state = [last_activity |-> t,
                                           shutdown_triggered |-> FALSE]],
          ret |-> FALSE]
    ELSE IF t - d.state.last_activity >= d.idle_delta
    THEN [decider |-> [d EXCEPT !.state.shutdown_triggered = TRUE],
          ret |-> TRUE]
    ELSE [decider |-> d, ret |-> FALSE]

\* register_observation that resets the idle clock on activity but keeps the latch.
register_observation_keep_latch(d, counts, t) ==
    IF DOMAIN counts = {}
    THEN [decider |-> d, ret |-> FALSE]
    ELSE IF above_threshold(d, counts)
    THEN [decider |-> [d EXCEPT !.state.last_activity = t], ret |-> FALSE]
    ELSE IF t - d.state.last_activity >= d.idle_delta
            /\ ~d.state.shutdown_triggered
    THEN [decider |-> [d EXCEPT !.state.shutdown_triggered = TRUE],
          ret |-> TRUE]
    ELSE [decider |-> d, ret |-> FALSE]

\* register_observation without the early return on an empty mapping.
register_observation_no_empty_test(d, counts, t) ==
    IF above_threshold(d, counts)
    THEN [decider |-> [d EXCEPT !.state = [last_activity |-> t,
                                           shutdown_triggered |-> FALSE]],
          ret |-> FALSE]
    ELSE IF t - d.state.last_activity >= d.idle_delta
            /\ ~d.state.shutdown_triggered
    THEN [decider |-> [d EXCEPT !.state.shutdown_triggered = TRUE],
          ret |-> TRUE]
    ELSE [decider |-> d, ret |-> FALSE]

\* register_observation that fires only after more than the idle delay.
register_observation_exclusive(d, counts, t) ==
    IF DOMAIN counts = {}
    THEN [decider |-> d, ret |-> FALSE]
    ELSE IF above_threshold(d, counts)
    THEN [decider |-> [d EXCEPT !.state = [last_activity |-> t,
                                           shutdown_triggered |-> FALSE]],
          ret |-> FALSE]
    ELSE IF t - d.state.last_activity > d.idle_delta
            /\ ~d.state.shutdown_triggered
    THEN [decider |-> [d EXCEPT !.state.shutdown_triggered = TRUE],
          ret |-> TRUE]
    ELSE [decider |-> d, ret |-> FALSE]

\* register_observation in which activity clears the latch but leaves the idle
\* clock running.
register_observation_keep_clock(d, counts, t) ==
    IF DOMAIN counts = {}
    THEN [decider |-> d, ret |-> FALSE]
    ELSE IF above_threshold(d, counts)
    THEN [decider |-> [d EXCEPT !.state.shutdown_triggered = FALSE],
          ret |-> FALSE]
    ELSE IF t - d.state.last_activity >= d.idle_delta
            /\ ~d.state.shutdown_triggered
    THEN [decider |-> [d EXCEPT !.state.shutdown_triggered = TRUE],
          ret |-> TRUE]
    ELSE [decider |-> d, ret |-> FALSE]

\* ShutdownDecider.register_observation at clock t: the decider afterwards and
\* the value returned.
register_observation(d, counts, t) ==
    IF DOMAIN counts = {}
    THEN [decider |-> d, ret |-> FALSE]
    ELSE IF above_threshold(d, counts)
    THEN [decider |-> [d EXCEPT !.state = [last_activity |-> t,
                                           shutdown_triggered |-> FALSE]],
          ret |-> FALSE]
    ELSE IF t - d.state.last_activity >= d.idle_delta
            /\ ~d.state.shutdown_triggered
    THEN [decider |-> [d EXCEPT !.state.shutdown_triggered = TRUE],
          ret |-> TRUE]
    ELSE [decider |-> d, ret |-> FALSE]

\* ------------------------------------------------ maintenance windows
\* _time_in_window that takes a window whose start is later than its end for
\* an empty one.
time_in_window_no_wrap(current, start, end) ==
    LET start_time == StrpTime(start)
        end_time == StrpTime(end)
    IN  IF start_time < 0 \/ end_time < 0 THEN FALSE
        ELSE start_time <= current /\ current <= end_time

\* _time_in_window with the end of a window that does not wrap left out.
time_in_window_end_exclusive(current, start, end) ==
    LET start_time == StrpTime(start)
        end_time == StrpTime(end)
    IN  IF start_time < 0 \/ end_time < 0 THEN FALSE
        ELSE IF start_time <= end_time
        THEN start_time <= current /\ current < end_time
        ELSE current >= start_time \/ current <= end_time

\* Monitor._time_in_window; current is in seconds after midnight.
time_in_window(current, start, end) ==
    LET start_time == StrpTime(start)
        end_time == StrpTime(end)
    IN  IF start_time < 0 \/ end_time < 0 THEN FALSE
        ELSE IF start_time <= end_time
        THEN start_time <= current /\ current <= end_time
        ELSE current >= start_time \/ current <= end_time

\* datetime.now() at UTC clock t, in seconds after Monday 00:00:00.
LocalNow(t) == LocalStart + t

\* now.strftime("%a").lower()
DayOf(local) == DayNames[((local \div SecondsPerDay) % 7) + 1]

\* now.time()
TimeOf(local) == local % SecondsPerDay

\* The day and time test of one window with the day names compared as written.
window_matches_case_sensitive(window, local) ==
    LET given == IF window.days = << >> THEN <<"*">> ELSE window.days
        days == {given[i] : i \in 1..Len(given)}
    IN  /\ ("*" \in days \/ DayOf(local) \in days)
        /\ time_in_window(TimeOf(local), window.start, window.end)

\* _in_maintenance_window, the body of its loop: the day and the time test of
\* one window.
window_matches(window, local) ==
    LET given == IF window.days = << >> THEN <<"*">> ELSE window.days
        days == {Lower(given[i]) : i \in 1..Len(given)}
    IN  /\ ("*" \in days \/ DayOf(local) \in days)
        /\ time_in_window(TimeOf(local), window.start, window.end)

\* _in_maintenance_window in which the ValueError of a malformed window is not
\* caught inside _time_in_window: it ends the scan of the windows, and the
\* cycle, with no window matched.
in_maintenance_window_uncaught(cfg, t) ==
    \E i \in 1..Len(cfg.maintenance_windows) :
        /\ window_matches(cfg.maintenance_windows[i], LocalNow(t))
        /\ \A j \in 1..(i - 1) :
              /\ StrpTime(cfg.maintenance_windows[j].start) >= 0
              /\ StrpTime(cfg.maintenance_windows[j].end) >= 0

\* Monitor._in_maintenance_window at UTC clock t.
in_maintenance_window(cfg, t) ==
    \E i \in 1..Len(cfg.maintenance_windows) :
        window_matches(cfg.maintenance_windows[i], LocalNow(t))

\* ------------------------------------------------------------- state
\* The thread inside Monitor.run, and two more callers of _trigger_shutdown.
RunThread == "run"

OtherThreads == {"t1", "t2"}

Callers == {RunThread} \cup OtherThreads

VARIABLES
    now,                 \* the clock, seconds
    pc,                  \* where the thread inside Monitor.run stands
    config,              \* run()'s local variable config
    decider,             \* Monitor.decider
    shutdown_initiated,  \* Monitor.shutdown_initiated
    stop,                \* stop_event.is_set()
    deadline,            \* when stop_event.wait(wait_seconds) times out
    trig,                \* each caller's position inside _trigger_shutdown
    commands,            \* the runs of SHUTDOWN_COMMAND so far
    last,                \* the operation just performed, its input and result
    response             \* the body of the reply get_player_counts decodes

vars == <<now, pc, config, decider, shutdown_initiated, stop, deadline, trig,
          commands, last, response>>

NoCounts == [i \in {} |-> 0]

Idle == [pc |-> "idle", dry_run |-> FALSE]

\* The record of the operation just performed: its name, the player counts it
\* was given, the value it returned, the decider's state before it, and whether
\* register_observation has returned true since the decider was constructed or
\* last observed a count above its threshold (the idle episode has fired), and
\* the time of the latest of: the construction of the decider, an observation
\* with a count above its threshold, a cycle inside a maintenance window; and
\* the time of the last cycle of run() inside a maintenance window, -1 before
\* the first;
\* and, after the update_config of a cycle of run(), the idle delay the decider
\* had before it (0 after any other operation).
Did(op, counts, ret) ==
    [op |-> op, counts |-> counts, ret |-> ret,
     before |-> IF decider = None THEN None ELSE decider.state,
     fired |-> IF op = "register_observation" /\ decider # None
               THEN IF SomeAbove(decider.config, counts) THEN FALSE
                    ELSE last.fired \/ ret
               ELSE IF op \in {"new", "run"} THEN FALSE ELSE last.fired,
     reset_at |-> IF \/ op \in {"new", "run"}
                     \/ op = "maintenance" /\ decider # None
                     \/ /\ op = "register_observation" /\ decider # None
                        /\ SomeAbove(decider.config, counts)
                  THEN now ELSE last.reset_at,
     window_at |-> IF op = "maintenance" /\ pc = "poll" THEN now
                   ELSE IF op \in {"new", "run"} THEN -1 ELSE last.window_at,
     prev_delta |-> IF op = "update_config" /\ decider # None /\ pc = "load"
                    THEN decider.idle_delta
                    ELSE 0]

\* Monitor.__init__, before run() is called.
Init ==
    /\ now = 0
    /\ pc = "start"
    /\ config = None
    /\ decider = None
    /\ shutdown_initiated = FALSE
    /\ stop = FALSE
    /\ deadline = 0
    /\ trig = [c \in Callers |-> Idle]
    /\ commands = << >>
    /\ last = [op |-> "init", counts |-> NoCounts, ret |-> FALSE, before |-> None,
               fired |-> FALSE, reset_at |-> 0, window_at |-> -1,
               prev_delta |-> 0]
    /\ response = None

\* ------------------------------------------------------------- clock
Tick ==
    /\ now + TickSeconds <= MaxTime
    /\ now' = now + TickSeconds
    /\ last' = Did("tick", NoCounts, FALSE)
    /\ UNCHANGED <<response, pc, config, decider, shutdown_initiated, stop,
                   deadline, trig, commands>>

\* ------------------------------------------------------- Monitor.run
\* The wait of the loop without the clamp.
wait_seconds_unclamped(cfg) == cfg.poll_interval_seconds

\* run(): wait_seconds = max(5, config.poll_interval_seconds)
wait_seconds(cfg) == Max(MinWaitSeconds, cfg.poll_interval_seconds)

\* The end of a cycle: run() computes wait_seconds and enters stop_event.wait.
EnterWait(cfg) ==
    /\ pc' = "wait"
    /\ deadline' = now + wait_seconds(cfg)

\* run() up to the loop: the first load and the construction of the decider.
RunStart ==
    /\ pc = "start"
    /\ \E cfg \in Configs :
          /\ config' = cfg
          /\ decider' = NewDecider(cfg, now)
    /\ pc' = "top"
    /\ last' = Did("run", NoCounts, FALSE)
    /\ UNCHANGED <<response, now, shutdown_initiated, stop, deadline, trig, commands>>

\* The first load raises (an unreadable configuration file): run() ends with it.
RunStartRaises ==
    /\ pc = "start"
    /\ pc' = "raised"
    /\ last' = Did("run_raised", NoCounts, FALSE)
    /\ UNCHANGED <<response, now, config, decider, shutdown_initiated, stop,
                   deadline, trig, commands>>

\* while not stop_event.is_set()
LoopTest ==
    /\ pc = "top"
    /\ pc' = IF stop THEN "done" ELSE "load"
    /\ last' = Did("loop_test", NoCounts, FALSE)
    /\ UNCHANGED <<response, now, config, decider, shutdown_initiated, stop,
                   deadline, trig, commands>>

\* A cycle that constructs a new decider from the loaded config.
CycleLoad_new_decider ==
    /\ pc = "load"
    /\ \E cfg \in Configs :
          /\ config' = cfg
          /\ decider' = NewDecider(cfg, now)
    /\ pc' = "poll"
    /\ last' = Did("update_config", NoCounts, FALSE)
    /\ UNCHANGED <<response, now, shutdown_initiated, stop, deadline, trig, commands>>

\* A cycle that loads the config without handing it to the decider.
CycleLoad_stale ==
    /\ pc = "load"
    /\ \E cfg \in Configs : config' = cfg
    /\ pc' = "poll"
    /\ last' = Did("update_config", NoCounts, FALSE)
    /\ UNCHANGED <<response, now, decider, shutdown_initiated, stop, deadline,
                   trig, commands>>

\* The cycle's load and decider.update_config.
CycleLoad ==
    /\ pc = "load"
    /\ \E cfg \in Configs :
          /\ config' = cfg
          /\ decider' = IF decider # None THEN update_config(decider, cfg)
                         ELSE decider
    /\ pc' = "poll"
    /\ last' = Did("update_config", NoCounts, FALSE)
    /\ UNCHANGED <<response, now, shutdown_initiated, stop, deadline, trig, commands>>

\* run() without the try around the cycle: the exception ends run().
CycleLoadRaises_uncaught ==
    /\ pc = "load"
    /\ pc' = "raised"
    /\ last' = Did("cycle_exception", NoCounts, FALSE)
    /\ UNCHANGED <<response, now, config, decider, shutdown_initiated, stop,
                   deadline, trig, commands>>

\* The cycle's load raises and config stays, or the load returns and
\* configure_logging raises before update_config: caught at the cycle boundary.
\* In the second case config is the value just loaded, of which run() reads
\* only poll_interval_seconds (for the wait) before the next load assigns
\* config again; the variable records that field and keeps the others.
CycleLoadRaises ==
    /\ pc = "load"
    /\ \E cfg \in {config} \cup Configs :
          LET loaded == [config EXCEPT !.poll_interval_seconds =
                                         cfg.poll_interval_seconds]
          IN  /\ config' = loaded
              /\ EnterWait(loaded)
    /\ last' = Did("cycle_exception", NoCounts, FALSE)
    /\ UNCHANGED <<response, now, decider, shutdown_initiated, stop, trig,
                   commands>>

\* _poll_once that leaves the maintenance window without touching last_activity.
PollOnce_window_no_reset ==
    /\ pc = "poll"
    /\ IF config.selected_instances = << >>
       THEN /\ EnterWait(config)
            /\ last' = Did("no_instances", NoCounts, FALSE)
       ELSE IF in_maintenance_window(config, now)
       THEN /\ EnterWait(config)
            /\ last' = Did("maintenance", NoCounts, FALSE)
       ELSE /\ pc' = "fetch"
            /\ last' = Did("poll", NoCounts, FALSE)
            /\ UNCHANGED deadline
    /\ UNCHANGED <<response, now, config, decider, shutdown_initiated, stop,
                   trig, commands>>

\* _poll_once that looks at the maintenance windows before the selection.
PollOnce_window_first ==
    /\ pc = "poll"
    /\ IF in_maintenance_window(config, now)
       THEN /\ EnterWait(config)
            /\ decider' = IF decider # None
                           THEN [decider EXCEPT !.state.last_activity = now]
                           ELSE decider
            /\ last' = Did("maintenance", NoCounts, FALSE)
       ELSE IF config.selected_instances = << >>
       THEN /\ EnterWait(config)
            /\ last' = Did("no_instances", NoCounts, FALSE)
            /\ UNCHANGED decider
       ELSE /\ pc' = "fetch"
            /\ last' = Did("poll", NoCounts, FALSE)
            /\ UNCHANGED <<decider, deadline>>
    /\ UNCHANGED <<response, now, config, shutdown_initiated, stop, trig,
                   commands>>

\* _poll_once that tests the stop event first and skips the cycle when it is set.
PollOnce_abort_on_stop ==
    /\ pc = "poll"
    /\ IF stop \/ config.selected_instances = << >>
       THEN /\ EnterWait(config)
            /\ last' = Did("no_instances", NoCounts, FALSE)
            /\ UNCHANGED decider
       ELSE IF in_maintenance_window(config, now)
       THEN /\ EnterWait(config)
            /\ decider' = IF decider # None
                           THEN [decider EXCEPT !.state.last_activity = now]
                           ELSE decider
            /\ last' = Did("maintenance", NoCounts, FALSE)
       ELSE /\ pc' = "fetch"
            /\ last' = Did("poll", NoCounts, FALSE)
            /\ UNCHANGED <<decider, deadline>>
    /\ UNCHANGED <<response, now, config, shutdown_initiated, stop, trig,
                   commands>>

\* _poll_once up to the fetch: the empty selection and the maintenance window.
PollOnce ==
    /\ pc = "poll"
    /\ IF config.selected_instances = << >>
       THEN /\ EnterWait(config)
            /\ last' = Did("no_instances", NoCounts, FALSE)
            /\ UNCHANGED decider
       ELSE IF in_maintenance_window(config, now)
       THEN /\ EnterWait(config)
            /\ decider' = IF decider # None
                           THEN [decider EXCEPT !.state.last_activity = now]
                           ELSE decider
            /\ last' = Did("maintenance", NoCounts, FALSE)
       ELSE /\ pc' = "fetch"
            /\ last' = Did("poll", NoCounts, FALSE)
            /\ UNCHANGED <<decider, deadline>>
    /\ UNCHANGED <<response, now, config, shutdown_initiated, stop, trig,
                   commands>>

Selected(cfg) == {cfg.selected_instances[i] : i \in 1..Len(cfg.selected_instances)}

\* _poll_once that takes an unavailable API for zero players everywhere and
\* registers that as the observation.
PollFetch_api_error_as_zero ==
    /\ pc = "fetch"
    /\ \/ /\ EnterWait(config)
          /\ last' = Did("cycle_exception", NoCounts, FALSE)
          /\ UNCHANGED <<decider, trig>>
       \/ \E failed \in BOOLEAN :
          \E counts \in IF failed THEN {[i \in Selected(config) |-> 0]}
                        ELSE [Selected(config) -> 0..MaxCount] :
             LET r == IF decider # None
                      THEN register_observation(decider, counts, now)
                      ELSE [decider |-> decider, ret |-> FALSE]
             IN  /\ decider' = r.decider
                 /\ last' = IF failed THEN Did("api_unavailable", NoCounts, FALSE)
                            ELSE Did("register_observation", counts, r.ret)
                 /\ IF r.ret
                    THEN /\ pc' = "trigger"
                         /\ trig' = [trig EXCEPT ![RunThread] =
                                        [pc |-> "check", dry_run |-> config.dry_run]]
                         /\ UNCHANGED deadline
                    ELSE /\ EnterWait(config)
                         /\ UNCHANGED trig
    /\ UNCHANGED <<response, now, config, shutdown_initiated, stop, commands>>

\* _poll_once from the construction of the client on: the fetch, the
\* observation and, when it returns true, the call of _trigger_shutdown.
PollFetch ==
    /\ pc = "fetch"
    /\ \/ \* AMPClient(...) or the decoding of the response raises something
          \* other than AMPAPIError: caught at the cycle boundary
          /\ EnterWait(config)
          /\ last' = Did("cycle_exception", NoCounts, FALSE)
          /\ UNCHANGED <<decider, trig>>
       \/ \* get_player_counts raises AMPAPIError
          /\ EnterWait(config)
          /\ last' = Did("api_unavailable", NoCounts, FALSE)
          /\ UNCHANGED <<decider, trig>>
       \/ \E counts \in [Selected(config) -> 0..MaxCount] :
             LET r == IF decider # None
                      THEN register_observation(decider, counts, now)
                      ELSE [decider |-> decider, ret |-> FALSE]
             IN  /\ decider' = r.decider
                 /\ last' = Did("register_observation", counts, r.ret)
                 /\ IF r.ret
                    THEN /\ pc' = "trigger"
                         /\ trig' = [trig EXCEPT ![RunThread] =
                                        [pc |-> "check", dry_run |-> config.dry_run]]
                         /\ UNCHANGED deadline
                    ELSE /\ EnterWait(config)
                         /\ UNCHANGED trig
    /\ UNCHANGED <<response, now, config, shutdown_initiated, stop, commands>>

\* ------------------------------------------- Monitor._trigger_shutdown
\* if self.shutdown_initiated: return
TriggerCheck(c) ==
    /\ trig[c].pc = "check"
    /\ IF shutdown_initiated
       THEN /\ trig' = [trig EXCEPT ![c] = Idle]
            /\ last' = Did("trigger_skipped", NoCounts, FALSE)
       ELSE /\ trig' = [trig EXCEPT ![c].pc = "set"]
            /\ last' = Did("trigger_check", NoCounts, FALSE)
    /\ UNCHANGED <<response, now, pc, config, decider, shutdown_initiated,
                   stop, deadline,
                   commands>>

\* _trigger_shutdown without the dry-run test.
TriggerSet_ignore_dry_run(c) ==
    /\ trig[c].pc = "set"
    /\ shutdown_initiated' = TRUE
    /\ trig' = [trig EXCEPT ![c].pc = "command"]
    /\ last' = Did("trigger_set", NoCounts, FALSE)
    /\ UNCHANGED <<response, now, pc, config, decider, stop, deadline,
                   commands>>

\* self.shutdown_initiated = True; if config.dry_run: return
TriggerSet(c) ==
    /\ trig[c].pc = "set"
    /\ shutdown_initiated' = TRUE
    /\ IF trig[c].dry_run
       THEN /\ trig' = [trig EXCEPT ![c] = Idle]
            /\ last' = Did("trigger_dry_run", NoCounts, FALSE)
       ELSE /\ trig' = [trig EXCEPT ![c].pc = "command"]
            /\ last' = Did("trigger_set", NoCounts, FALSE)
    /\ UNCHANGED <<response, now, pc, config, decider, stop, deadline,
                   commands>>

\* _trigger_shutdown that runs the command a second time when the first run fails.
TriggerCommand_retry(c) ==
    /\ trig[c].pc = "command"
    /\ \E ok \in BOOLEAN :
          LET run == [caller |-> c, dry_run |-> trig[c].dry_run, ok |-> ok]
          IN  /\ commands' = IF ok THEN Append(commands, run)
                               ELSE Append(Append(commands, run), run)
              /\ last' = Did(IF ok THEN "shutdown_issued" ELSE "shutdown_failed",
                             NoCounts, FALSE)
    /\ trig' = [trig EXCEPT ![c] = Idle]
    /\ UNCHANGED <<response, now, pc, config, decider, shutdown_initiated,
                   stop, deadline>>

\* _trigger_shutdown that does not catch the failure of the command: it leaves
\* _poll_once before stop_event.set() and is caught at the cycle boundary.
TriggerCommand_uncaught(c) ==
    /\ trig[c].pc = "command"
    /\ trig' = [trig EXCEPT ![c] = Idle]
    /\ \E ok \in BOOLEAN :
          /\ commands' = Append(commands,
                                [caller |-> c, dry_run |-> trig[c].dry_run, ok |-> ok])
          /\ last' = Did(IF ok THEN "shutdown_issued" ELSE "shutdown_failed",
                         NoCounts, FALSE)
          /\ IF ~ok /\ c = RunThread
             THEN EnterWait(config)
             ELSE UNCHANGED <<pc, deadline>>
    /\ UNCHANGED <<response, now, config, decider, shutdown_initiated, stop>>

\* subprocess.run(SHUTDOWN_COMMAND, check=True): it succeeds, or it raises and
\* the failure is logged.
TriggerCommand(c) ==
    /\ trig[c].pc = "command"
    /\ \E ok \in BOOLEAN :
          /\ commands' = Append(commands,
                                [caller |-> c, dry_run |-> trig[c].dry_run, ok |-> ok])
          /\ last' = Did(IF ok THEN "shutdown_issued" ELSE "shutdown_failed",
                         NoCounts, FALSE)
    /\ trig' = [trig EXCEPT ![c] = Idle]
    /\ UNCHANGED <<response, now, pc, config, decider, shutdown_initiated,
                   stop, deadline>>

\* _poll_once that returns from _trigger_shutdown without stop_event.set().
StopSet_no_stop ==
    /\ pc = "trigger"
    /\ trig[RunThread].pc = "idle"
    /\ EnterWait(config)
    /\ last' = Did("stop_set", NoCounts, FALSE)
    /\ UNCHANGED <<response, now, config, decider, shutdown_initiated, stop,
                   trig, commands>>

\* _poll_once after _trigger_shutdown returned: stop_event.set().
StopSet ==
    /\ pc = "trigger"
    /\ trig[RunThread].pc = "idle"
    /\ stop' = TRUE
    /\ EnterWait(config)
    /\ last' = Did("stop_set", NoCounts, FALSE)
    /\ UNCHANGED <<response, now, config, decider, shutdown_initiated, trig,
                   commands>>

\* A fixed sleep in place of stop_event.wait: it returns only when the time is over.
WaitDone_sleep ==
    /\ pc = "wait"
    /\ now >= deadline
    /\ pc' = "top"
    /\ last' = Did("wait_done", NoCounts, FALSE)
    /\ UNCHANGED <<response, now, config, decider, shutdown_initiated, stop,
                   deadline, trig, commands>>

\* stop_event.wait(wait_seconds) returns: the event is set or the time is over.
WaitDone ==
    /\ pc = "wait"
    /\ stop \/ now >= deadline
    /\ pc' = "top"
    /\ last' = Did("wait_done", NoCounts, FALSE)
    /\ UNCHANGED <<response, now, config, decider, shutdown_initiated, stop,
                   deadline, trig, commands>>

\* AmpAutoShutdownService.SvcStop, on the service control thread.
SvcStop ==
    /\ ~stop
    /\ stop' = TRUE
    /\ last' = Did("svc_stop", NoCounts, FALSE)
    /\ UNCHANGED <<response, now, pc, config, decider, shutdown_initiated,
                   deadline, trig, commands>>

\* One Monitor run, with the service control thread and the clock.
Next ==
    \/ Tick
    \/ RunStart
    \/ RunStartRaises
    \/ LoopTest
    \/ CycleLoad
    \/ CycleLoadRaises
    \/ PollOnce
    \/ PollFetch
    \/ TriggerCheck(RunThread)
    \/ TriggerSet(RunThread)
    \/ TriggerCommand(RunThread)
    \/ StopSet
    \/ WaitDone
    \/ SvcStop

Spec == Init /\ [][Next]_vars

\* A step of the thread inside Monitor.run.
RunStep ==
    \/ RunStart
    \/ RunStartRaises
    \/ LoopTest
    \/ CycleLoad
    \/ CycleLoadRaises
    \/ PollOnce
    \/ PollFetch
    \/ TriggerCheck(RunThread)
    \/ TriggerSet(RunThread)
    \/ TriggerCommand(RunThread)
    \/ StopSet
    \/ WaitDone

\* How many steps the thread inside Monitor.run is from the end of run() at most,
\* once the stop signal is set: the rest of the cycle in flight, the wait and
\* the loop test.
StepsToEnd ==
    CASE pc \in {"done", "raised"} -> 0
      [] pc = "top" -> 1
      [] pc = "wait" -> 2
      [] pc = "trigger" ->
            3 + (CASE trig[RunThread].pc = "idle" -> 0
                   [] trig[RunThread].pc = "command" -> 1
                   [] trig[RunThread].pc = "set" -> 2
                   [] trig[RunThread].pc = "check" -> 3)
      [] pc = "fetch" -> 7
      [] pc = "poll" -> 8
      [] pc = "load" -> 9
      [] pc = "start" -> 10

\* ------------------------------------- the decider driven on its own
\* ShutdownDecider(cfg), as the tests construct it.
DeciderNew ==
    /\ decider = None
    /\ \E cfg \in Configs : decider' = NewDecider(cfg, now)
    /\ last' = Did("new", NoCounts, FALSE)
    /\ UNCHANGED <<response, now, pc, config, shutdown_initiated, stop,
                   deadline, trig, commands>>

DeciderUpdateConfig ==
    /\ decider # None
    /\ \E cfg \in Configs : decider' = update_config(decider, cfg)
    /\ last' = Did("update_config", NoCounts, FALSE)
    /\ UNCHANGED <<response, now, pc, config, shutdown_initiated, stop,
                   deadline, trig, commands>>

DeciderRegister ==
    /\ decider # None
    /\ \E counts \in CountMaps :
          LET r == register_observation(decider, counts, now)
          IN  /\ decider' = r.decider
              /\ last' = Did("register_observation", counts, r.ret)
    /\ UNCHANGED <<response, now, pc, config, shutdown_initiated, stop,
                   deadline, trig, commands>>

\* The in-window reset done by replacing the decider's state with a fresh one.
DeciderWindowReset_fresh_state ==
    /\ decider # None
    /\ decider' = [decider EXCEPT !.state = ShutdownState(now)]
    /\ last' = Did("maintenance", NoCounts, FALSE)
    /\ UNCHANGED <<response, now, pc, config, shutdown_initiated, stop,
                   deadline,
                   trig, commands>>

\* The assignment _poll_once makes to the decider's state in a cycle inside
\* a maintenance window.
DeciderWindowReset ==
    /\ decider # None
    /\ decider' = [decider EXCEPT !.state.last_activity = now]
    /\ last' = Did("maintenance", NoCounts, FALSE)
    /\ UNCHANGED <<response, now, pc, config, shutdown_initiated, stop,
                   deadline,
                   trig, commands>>

NextDecider ==
    \/ Tick
    \/ DeciderNew
    \/ DeciderUpdateConfig
    \/ DeciderRegister
    \/ DeciderWindowReset

SpecDecider == Init /\ [][NextDecider]_vars

\* ------------------------------------------ a run that is left idle
\* What the run has met so far when it is never cancelled and all instances
\* stay idle: every config loaded selects some instances and has no
\* maintenance window, no cycle ended with an exception, every fetch succeeded
\* and every count observed is at or below its threshold.
IdleRun ==
    /\ ~stop \/ shutdown_initiated
    /\ config # None
          => /\ config.selected_instances # << >>
             /\ config.maintenance_windows = << >>
    /\ last.op \notin {"run_raised", "cycle_exception", "api_unavailable",
                       "svc_stop"}
    /\ last.op = "register_observation"
          => AllAtOrBelow(config, last.counts)

\* The steps of Next that keep the run idle and uncancelled.
NextIdle ==
    \/ Tick /\ IdleRun'
    \/ RunStart /\ IdleRun'
    \/ LoopTest /\ IdleRun'
    \/ CycleLoad /\ IdleRun'
    \/ PollOnce /\ IdleRun'
    \/ PollFetch /\ IdleRun'
    \/ TriggerCheck(RunThread) /\ IdleRun'
    \/ TriggerSet(RunThread) /\ IdleRun'
    \/ TriggerCommand(RunThread) /\ IdleRun'
    \/ StopSet /\ IdleRun'
    \/ WaitDone /\ IdleRun'

\* The clock advances, and the thread inside run() goes on whenever it can.
SpecIdle ==
    /\ Init
    /\ [][NextIdle]_vars
    /\ WF_vars(Tick)
    /\ WF_vars(RunStep /\ IdleRun')

\* The latest time from which the clock of the model still reaches the longest
\* idle delay of the configs (2 minutes) and the end of the longest wait before
\* it (1 minute).
LiveBy == MaxTime - 3 * SecondsPerMinute

\* ------------------- _trigger_shutdown called from two threads at once
TriggerCall(c) ==
    /\ trig[c].pc = "idle"
    /\ \E cfg \in Configs :
          trig' = [trig EXCEPT ![c] = [pc |-> "check", dry_run |-> cfg.dry_run]]
    /\ last' = Did("trigger_call", NoCounts, FALSE)
    /\ UNCHANGED <<response, now, pc, config, decider, shutdown_initiated,
                   stop, deadline,
                   commands>>

NextTrigger ==
    \E c \in OtherThreads :
        \/ TriggerCall(c)
        \/ TriggerCheck(c)
        \/ TriggerSet(c)
        \/ TriggerCommand(c)

SpecTrigger == Init /\ [][NextTrigger]_vars

\* ------------- _time_in_window and _in_maintenance_window called directly
\* Hour, minute and second as seconds after midnight.
HMS(h, m, s) == (h * 60 + m) * SecondsPerMinute + s

\* The hours and minutes written into the windows: 22:00, 02:00 and 10:30.
ClockFaces == {<<22, 0>>, <<2, 0>>, <<10, 30>>}

\* A clock face written as HH:MM, the way the configuration file holds it.
HHMM(f) ==
    <<Digits[(f[1] \div 10) + 1], Digits[(f[1] % 10) + 1], ":",
      Digits[(f[2] \div 10) + 1], Digits[(f[2] % 10) + 1]>>

\* Strings strptime rejects: 24:00, 2200 and the empty string.
MalformedTimes == {<<"2", "4", ":", "0", "0">>, <<"2", "2", "0", "0">>, << >>}

TimeStrings == {HHMM(f) : f \in ClockFaces} \cup MalformedTimes

\* The days a window may carry: none, every day, and day names in the
\* spellings a configuration built in code or read from the file may hold.
DayListChoices == {<< >>, <<"Sun">>, <<"SAT">>, <<"mon", "sun">>}

\* Windows for every day with any start and end, and windows for some days
\* with a well-formed start and end (22:00-02:00 and 02:00-10:30).
TestWindows ==
    [days : {<<"*">>}, start : TimeStrings, end : TimeStrings]
    \cup [days : DayListChoices, start : {HHMM(<<22, 0>>)}, end : {HHMM(<<2, 0>>)}]
    \cup [days : DayListChoices, start : {HHMM(<<2, 0>>)}, end : {HHMM(<<10, 30>>)}]

\* Lists of one or two windows.
WindowChoices ==
    {<<w>> : w \in TestWindows} \cup {<<v, w>> : v, w \in TestWindows}

\* Times of day at which the windows are tried: at, just before and just after
\* the clock faces, and away from them. 23:59 falls on the Saturday the local
\* clock starts in, the other times on the Sunday after it.
WindowTimes ==
    {HMS(0, 0, 0), HMS(2, 0, 0), HMS(2, 0, 1), HMS(3, 0, 0), HMS(10, 29, 59),
     HMS(10, 30, 0), HMS(10, 30, 1), HMS(15, 0, 0), HMS(21, 59, 59),
     HMS(22, 0, 0), HMS(23, 0, 0), HMS(23, 59, 0)}

\* The clocks at which the local time of day is one of WindowTimes.
WindowClocks == {(c - TimeOf(LocalStart)) % SecondsPerDay : c \in WindowTimes}

\* The local time of day and the windows are drawn at the start.
InitWindow ==
    /\ now \in WindowClocks
    /\ pc = "start"
    /\ config \in {[DefaultConfig EXCEPT !.maintenance_windows = ws] :
                      ws \in WindowChoices}
    /\ decider = None
    /\ shutdown_initiated = FALSE
    /\ stop = FALSE
    /\ deadline = 0
    /\ trig = [c \in Callers |-> Idle]
    /\ commands = << >>
    /\ last = [op |-> "init", counts |-> NoCounts, ret |-> FALSE, before |-> None,
               fired |-> FALSE, reset_at |-> 0, window_at |-> -1,
               prev_delta |-> 0]
    /\ response = None

\* Monitor._time_in_window(current, start, end) with the local time of day as
\* current and the first window of config as start and end.
TimeInWindow ==
    /\ LET w == config.maintenance_windows[1]
       IN  last' = Did("time_in_window", NoCounts,
                       time_in_window(TimeOf(LocalNow(now)), w.start, w.end))
    /\ UNCHANGED <<response, now, pc, config, decider, shutdown_initiated,
                   stop, deadline,
                   trig, commands>>

\* Monitor._in_maintenance_window(config) at clock now.
InMaintenanceWindow ==
    /\ last' = Did("in_maintenance_window", NoCounts,
                   in_maintenance_window(config, now))
    /\ UNCHANGED <<response, now, pc, config, decider, shutdown_initiated,
                   stop, deadline,
                   trig, commands>>

NextWindow ==
    \/ TimeInWindow
    \/ InMaintenanceWindow

SpecWindow == InitWindow /\ [][NextWindow]_vars

\* ------------------------------------ AMPClient.get_player_counts
\* The values response.json() may hold for an instance: a number, a string,
\* null, a number beyond the range of a float (1e999, decoded as infinity),
\* and an object with or without a "players" field. A value is written as the
\* sequence of its kind and its content.
JInt(n) == <<"int", Digits[n + 1]>>

JStr(s) == <<"str">> \o s

JNull == <<"null">>

JInf == <<"inf">>

\* An object without a "players" field.
NoPlayers == <<"dict">>

\* An object whose "players" field holds the value players.
JDict(players) == <<"dict">> \o players

\* A count written in decimal, as a string of the reply holds it.
Decimal(n) == <<Digits[n + 1]>>

NotANumber == <<"x">>

JsonScalars ==
    {JInt(n) : n \in 0..MaxCount} \cup {JStr(Decimal(n)) : n \in 0..MaxCount}
    \cup {JStr(NotANumber), JNull, JInf}

JsonValues == JsonScalars \cup {JDict(p) : p \in JsonScalars} \cup {NoPlayers}

\* A reply that is not a JSON object.
NotADict == [is_dict |-> FALSE, items |-> [i \in {} |-> JNull]]

\* The replies: not an object, or an object holding a value for some instances.
Responses ==
    {NotADict} \cup
    {[is_dict |-> TRUE, items |-> f] :
        f \in UNION {[S -> JsonValues] : S \in SUBSET Instances}}

\* The lists of instances asked for.
Requests == {<< >>, <<"a">>, <<"a", "b">>}

\* int(value): the integer, or the exception raised.
int_of(value) ==
    CASE value[1] = "int" -> [raised |-> "", n |-> DigitValue(value[2])]
      [] value[1] = "str" ->
            IF TwoDigits(Tail(value)) >= 0
            THEN [raised |-> "", n |-> TwoDigits(Tail(value))]
            ELSE [raised |-> "ValueError", n |-> 0]
      [] value[1] = "inf" -> [raised |-> "OverflowError", n |-> 0]
      [] OTHER -> [raised |-> "TypeError", n |-> 0]

\* data.get(name), replaced by its "players" field when it is an object that
\* has one.
player_value(data, name) ==
    LET got == IF name \in DOMAIN data.items THEN data.items[name] ELSE JNull
    IN  IF got[1] = "dict" /\ got # NoPlayers THEN Tail(got) ELSE got

\* AMPClient.get_player_counts on the decoded reply data: the mapping returned,
\* or the exception that leaves the call.
get_player_counts(instance_list, data) ==
    LET names == {instance_list[i] : i \in 1..Len(instance_list)}
    IN  IF instance_list = << >> THEN [raised |-> "", counts |-> NoCounts]
        ELSE IF ~data.is_dict THEN [raised |-> "AMPAPIError", counts |-> NoCounts]
        ELSE IF \E name \in names :
                   int_of(player_value(data, name)).raised = "OverflowError"
        THEN [raised |-> "OverflowError", counts |-> NoCounts]
        ELSE [raised |-> "",
              counts |-> [name \in names |->
                            IF int_of(player_value(data, name)).raised = ""
                            THEN int_of(player_value(data, name)).n ELSE 0]]

\* The instances asked for and the reply are drawn at the start.
InitFetch ==
    /\ now = 0
    /\ pc = "start"
    /\ config \in {[DefaultConfig EXCEPT !.selected_instances = r] : r \in Requests}
    /\ decider = None
    /\ shutdown_initiated = FALSE
    /\ stop = FALSE
    /\ deadline = 0
    /\ trig = [c \in Callers |-> Idle]
    /\ commands = << >>
    /\ last = [op |-> "init", counts |-> NoCounts, ret |-> FALSE, before |-> None,
               fired |-> FALSE, reset_at |-> 0, window_at |-> -1,
               prev_delta |-> 0]
    /\ response \in Responses

\* client.get_player_counts(config.selected_instances); last.ret tells whether
\* the call returned, last.counts is the mapping returned.
GetPlayerCounts ==
    /\ LET r == get_player_counts(config.selected_instances, response)
       IN  last' = Did(IF r.raised = "" THEN "get_player_counts" ELSE r.raised,
                       r.counts, r.raised = "")
    /\ UNCHANGED <<now, pc, config, decider, shutdown_initiated, stop, deadline,
                   trig, commands, response>>

NextFetch == GetPlayerCounts

SpecFetch == InitFetch /\ [][NextFetch]_vars

\* ------------------------------------------------------------- claims
\* The operation just performed was register_observation on a constructed decider.
Registered == last.op = "register_observation" /\ decider # None

\* The idle delay had elapsed when the operation just performed read the clock.
IdleElapsed == now - last.before.last_activity >= decider.idle_delta

\* C1: edge trigger. A register_observation call in which every observed count
\* is at or below its effective threshold and now - lastActivity >= idleDelay
\* returns true exactly when no call has returned true since the decider was
\* constructed or last observed a count above its threshold: the first such
\* call of an idle episode returns true, every later one false.
C1_EdgeTrigger ==
    [][(/\ last'.op = "register_observation"
        /\ AllAtOrBelow(decider'.config, last'.counts)
        /\ now' - last'.before.last_activity >= decider'.idle_delta)
       => (last'.ret = ~last.fired)]_vars

\* A later call of the same idle episode, still idle long enough, returned false.
C1_Witness ==
    /\ Registered
    /\ AllAtOrBelow(decider.config, last.counts)
    /\ IdleElapsed
    /\ last.before.shutdown_triggered
    /\ last.fired
    /\ ~last.ret

\* C2: a register_observation call with at least one count strictly above its
\* effective threshold returns false, sets lastActivity to the observation time
\* and clears the latch, whatever the state before.
C2_ActivityResets ==
    (Registered /\ SomeAbove(decider.config, last.counts))
        => /\ ~last.ret
           /\ decider.state = [last_activity |-> now, shutdown_triggered |-> FALSE]

\* Activity was observed with the latch set and the idle delay elapsed.
C2_Witness ==
    /\ Registered
    /\ SomeAbove(decider.config, last.counts)
    /\ last.before.shutdown_triggered
    /\ last.before.last_activity < now
    /\ IdleElapsed
    /\ ~decider.state.shutdown_triggered

\* C3: during one Monitor run the OS shutdown command is run at most once.
C3_AtMostOneShutdown == Len(commands) <= 1

\* The run ended after it ran the command once.
C3_Witness == pc = "done" /\ Len(commands) = 1

\* C4: when two invocations of _trigger_shutdown on one Monitor interleave, the
\* shutdown command is executed by at most one of the callers.
C4_AtomicTestAndSet ==
    Cardinality({commands[i].caller : i \in 1..Len(commands)}) <= 1

\* C5: a poll cycle that finds a non-empty selection and the clock inside a
\* matching maintenance window sets lastActivity to now, goes straight to the
\* wait (no fetch, no register_observation) and triggers nothing.
C5_MaintenanceCycle ==
    [][(/\ pc = "poll"
        /\ pc' # "poll"
        /\ config.selected_instances # << >>
        /\ in_maintenance_window(config, now))
       => /\ last'.op = "maintenance"
          /\ pc' = "wait"
          /\ decider'.state.last_activity = now
          /\ decider'.state.shutdown_triggered = decider.state.shutdown_triggered
          /\ UNCHANGED <<shutdown_initiated, stop, trig, commands>>]_vars

\* A cycle inside the window reset an idle clock that had run out.
C5_Witness ==
    /\ last.op = "maintenance"
    /\ pc = "wait"
    /\ IdleElapsed
    /\ ~last.before.shutdown_triggered
    /\ last.before.last_activity < now
    /\ decider.state.last_activity = now

\* C6: a cycle whose fetch fails with AMPAPIError leaves the decider as it was,
\* triggers no shutdown, sets no stop signal, and ends in the wait before the
\* next cycle.
C6_ApiUnavailable ==
    [][(last'.op = "api_unavailable")
       => /\ pc = "fetch"
          /\ pc' = "wait"
          /\ deadline' = now + wait_seconds(config)
          /\ UNCHANGED <<decider, shutdown_initiated, stop, trig, commands>>]_vars

\* The fetch failed in a cycle that an all-idle observation would have ended
\* with a shutdown.
C6_Witness ==
    /\ last.op = "api_unavailable"
    /\ pc = "wait"
    /\ IdleElapsed
    /\ ~decider.state.shutdown_triggered
    /\ decider.state = last.before
    /\ ~shutdown_initiated

\* C7: once register_observation has returned true (the latch is set), the run
\* is inside _trigger_shutdown or past it with the stop signal set, and it never
\* starts another cycle: no later load, poll or fetch.
C7_TriggerEndsRun ==
    (decider # None /\ decider.state.shutdown_triggered)
        => /\ pc \in {"trigger", "wait", "top", "done"}
           /\ (pc = "trigger" => (trig[RunThread].pc # "idle" \/ shutdown_initiated))
           /\ (pc # "trigger" => (stop /\ shutdown_initiated))

\* run() returned after the observation that triggered.
C7_Witness ==
    /\ decider # None
    /\ decider.state.shutdown_triggered
    /\ shutdown_initiated
    /\ stop
    /\ pc = "done"

\* C8: update_config leaves lastActivity and shutdownTriggered as they were; what
\* it installs is the configuration and the delay derived from it.
C8_UpdateConfigFrame ==
    (last.op = "update_config" /\ decider # None)
        => /\ decider.state = last.before
           /\ decider.idle_delta =
                  Max(MinIdleMinutes, decider.config.idle_delay_minutes)
                      * SecondsPerMinute

\* update_config ran with the latch set and an idle clock in the past.
C8_Witness ==
    /\ last.op = "update_config"
    /\ decider.state.shutdown_triggered
    /\ decider.state.last_activity < now
    /\ decider.state = last.before

\* C9: register_observation with an empty mapping returns false and leaves
\* lastActivity and shutdownTriggered unchanged, in every state.
C9_EmptyObservation ==
    (Registered /\ DOMAIN last.counts = {})
        => /\ ~last.ret
           /\ decider.state = last.before

\* An empty mapping was registered with the idle delay elapsed and the latch clear.
C9_Witness ==
    /\ Registered
    /\ DOMAIN last.counts = {}
    /\ IdleElapsed
    /\ ~last.before.shutdown_triggered
    /\ ~last.ret

\* C10: under dry_run _trigger_shutdown never runs the OS shutdown command; it
\* still sets the 'already initiated' flag, and the loop is still signalled to
\* stop once it has returned.
C10_DryRun ==
    /\ \A i \in 1..Len(commands) : ~commands[i].dry_run
    /\ (last.op = "trigger_dry_run")
          => (shutdown_initiated /\ commands = << >> /\ trig[RunThread] = Idle)
    /\ (shutdown_initiated /\ pc # "trigger") => stop

\* A dry run ended the loop without a command.
C10_Witness ==
    /\ pc = "done"
    /\ config.dry_run
    /\ shutdown_initiated
    /\ stop
    /\ commands = << >>

\* The shutdown command of this run was run and failed, and _trigger_shutdown
\* has returned.
ShutdownFailed ==
    /\ commands # << >>
    /\ ~commands[Len(commands)].ok
    /\ trig[RunThread].pc = "idle"

\* C11 as stated: after the command failed the latch stays set, and the Monitor
\* stays able to attempt the shutdown in a fresh idle episode: the 'already
\* initiated' flag does not stand in the way and the loop has not been told to
\* stop on account of the failed attempt.
C11_RetryInFreshEpisode ==
    ShutdownFailed
        => /\ decider.state.shutdown_triggered
           /\ ~shutdown_initiated
           /\ (pc # "trigger" => last.op # "stop_set")

\* C11 as amended: after the command failed (the step is recorded as
\* shutdown_failed) the latch stays set, the flag stays set, the stop signal is
\* set as after a success, and the command is not run again during the run.
C11_FailedShutdown ==
    /\ (last.op = "shutdown_failed") => ShutdownFailed
    /\ ShutdownFailed
          => /\ decider.state.shutdown_triggered
             /\ shutdown_initiated
             /\ Len(commands) = 1
             /\ pc \in {"trigger", "wait", "top", "done"}
             /\ (pc # "trigger" => stop)

\* The run ended after a failed command.
C11_Witness ==
    /\ ShutdownFailed
    /\ Len(commands) = 1
    /\ decider.state.shutdown_triggered
    /\ pc = "done"

\* C12: an exception raised inside a cycle is caught at the cycle boundary: the
\* loop enters its wait, computed from config, and run() goes on; after the
\* wait the loop test starts the next cycle unless the stop signal is set, and
\* run() ends only with the stop signal set (it raises only before the loop).
C12_CycleExceptionCaught ==
    /\ [](/\ (last.op = "cycle_exception")
                => (pc = "wait" /\ deadline = now + wait_seconds(config))
          /\ (pc = "done" => stop)
          /\ (pc = "raised" => decider = None))
    /\ [][/\ (pc = "wait" /\ pc' # "wait") => pc' = "top"
          /\ (pc = "top" /\ pc' # "top")
                => pc' = (IF stop THEN "done" ELSE "load")]_vars

\* A cycle in the middle of a run ended with an exception and the loop waits.
C12_Witness ==
    /\ last.op = "cycle_exception"
    /\ pc = "wait"
    /\ ~stop
    /\ decider # None
    /\ decider.state.last_activity < now

\* C13: cancellation. Once the stop signal is set it stays set and run()
\* terminates: until run() has ended its thread always has a step to take, and
\* each step of the thread (a step that moves its position) brings it closer
\* to the end, no other step taking it further (so the cycle in flight is the
\* last). A set signal ends the wait at once, before its time is over, and
\* a cycle starts only from a loop test that found the signal unset.
C13_Cancellation ==
    /\ []((stop /\ pc \notin {"done", "raised"}) => ENABLED RunStep)
    /\ []((pc = "wait" /\ stop) => ENABLED WaitDone)
    /\ [][stop => stop']_vars
    /\ [][stop => IF pc' # pc \/ trig'[RunThread] # trig[RunThread]
                     THEN StepsToEnd' < StepsToEnd
                     ELSE StepsToEnd' = StepsToEnd]_vars
    /\ [][(pc' = "load" /\ pc # "load") => (pc = "top" /\ ~stop)]_vars

\* The service stopped a run, which ended before the time of its wait was over.
C13_Witness ==
    /\ pc = "done"
    /\ stop
    /\ ~shutdown_initiated
    /\ last.op = "loop_test"
    /\ now < deadline

\* C14: the effective threshold of an instance is its entry in
\* per_instance_thresholds when it has one and the global threshold otherwise,
\* and it is this threshold a count is compared with: an entry lower than the
\* global threshold makes a count above the entry activity, an entry higher
\* than the global threshold makes a count at or below the entry no activity.
C14_EffectiveThreshold ==
    decider # None =>
        LET per == decider.config.per_instance_thresholds
            global == decider.config.global_player_threshold
            effective(i) == IF i \in DOMAIN per THEN per[i] ELSE global
        IN  /\ \A i \in Instances : threshold_for(decider, i) = effective(i)
            /\ Registered =>
                  IF \E i \in DOMAIN last.counts : last.counts[i] > effective(i)
                  THEN /\ ~last.ret
                       /\ decider.state = [last_activity |-> now,
                                           shutdown_triggered |-> FALSE]
                  ELSE decider.state.last_activity = last.before.last_activity

\* A count above the instance's own threshold, but not above the higher global
\* one, was taken as activity.
C14_Witness ==
    /\ Registered
    /\ "b" \in DOMAIN last.counts
    /\ "b" \in DOMAIN decider.config.per_instance_thresholds
    /\ decider.config.per_instance_thresholds["b"]
          < decider.config.global_player_threshold
    /\ last.counts["b"] > decider.config.per_instance_thresholds["b"]
    /\ \A i \in DOMAIN last.counts :
          last.counts[i] <= decider.config.global_player_threshold
    /\ last.before.last_activity < now
    /\ decider.state.last_activity = now

\* C15: activity is a strict comparison. A register_observation call in which
\* some count equals its effective threshold and none exceeds its own leaves
\* lastActivity alone, does not clear the latch and returns true when the idle
\* delay has elapsed with the latch clear; and a call changes lastActivity or
\* clears the latch only when some count is strictly above its threshold.
C15_StrictComparison ==
    Registered =>
        /\ (/\ AllAtOrBelow(decider.config, last.counts)
            /\ \E i \in DOMAIN last.counts :
                  last.counts[i] = EffectiveThreshold(decider.config, i))
              => /\ decider.state.last_activity = last.before.last_activity
                 /\ last.before.shutdown_triggered
                       => decider.state.shutdown_triggered
                 /\ (IdleElapsed /\ ~last.before.shutdown_triggered)
                       => (last.ret /\ decider.state.shutdown_triggered)
        /\ (\/ decider.state.last_activity # last.before.last_activity
            \/ (last.before.shutdown_triggered
                  /\ ~decider.state.shutdown_triggered))
              => SomeAbove(decider.config, last.counts)

\* Every count equal to a threshold of at least one player, and the call fired.
C15_Witness ==
    /\ Registered
    /\ DOMAIN last.counts # {}
    /\ \A i \in DOMAIN last.counts :
          /\ last.counts[i] = EffectiveThreshold(decider.config, i)
          /\ last.counts[i] > 0
    /\ IdleElapsed
    /\ last.ret

\* C16: a register_observation call in which every count is at or below its
\* effective threshold returns false and changes neither lastActivity nor the
\* latch while now - lastActivity < idleDelay, and returns true as soon as
\* now - lastActivity >= idleDelay (the boundary included) with the latch clear.
C16_IdleDelayBoundary ==
    (Registered /\ AllAtOrBelow(decider.config, last.counts))
        => /\ ~IdleElapsed => (~last.ret /\ decider.state = last.before)
           /\ (IdleElapsed /\ ~last.before.shutdown_triggered) => last.ret

\* The call came exactly idleDelay after the last activity, and fired.
C16_Witness ==
    /\ Registered
    /\ AllAtOrBelow(decider.config, last.counts)
    /\ now - last.before.last_activity = decider.idle_delta
    /\ ~last.before.shutdown_triggered
    /\ last.ret

\* C17: ShutdownState is mutated only by register_observation: no other
\* operation of the Decider or of the Monitor changes lastActivity or
\* shutdownTriggered of a constructed decider.
C17_OnlyRegisterObservation ==
    [][(decider # None /\ decider'.state # decider.state)
          => last'.op = "register_observation"]_vars

\* C17, amended: the state of a constructed decider changes only in
\* register_observation and in the maintenance branch of _poll_once, which
\* sets lastActivity to the current time and leaves the latch alone; a config
\* reload, an API failure, an exception of the cycle, the shutdown trigger, the
\* wait and the stop signal change neither field.
C17_StateFrame ==
    [][(decider # None /\ decider'.state # decider.state)
          => \/ last'.op = "register_observation"
             \/ /\ last'.op = "maintenance"
                /\ decider'.state =
                      [decider.state EXCEPT !.last_activity = now]]_vars

\* A cycle inside a maintenance window moved lastActivity without any call of
\* register_observation.
C17_Witness ==
    /\ last.op = "maintenance"
    /\ decider # None
    /\ last.before.last_activity < now
    /\ decider.state.last_activity = now
    /\ decider.state.shutdown_triggered = last.before.shutdown_triggered

\* The time of day a clock face stands for, in seconds after midnight.
FaceSeconds(f) == HMS(f[1], f[2], 0)

\* The local time of day at which the window functions were called.
CurrentTime == TimeOf(LocalNow(now))

\* The operation just performed tried the first window of config alone, by its
\* time only: _time_in_window itself, or _in_maintenance_window on a single
\* window for every day.
WindowTried ==
    \/ last.op = "time_in_window"
    \/ /\ last.op = "in_maintenance_window"
       /\ Len(config.maintenance_windows) = 1
       /\ config.maintenance_windows[1].days = <<"*">>

C19_PlainWindow ==
    WindowTried =>
        LET w == config.maintenance_windows[1]
        IN  \A s, e \in ClockFaces :
               (/\ w.start = HHMM(s)
                /\ w.end = HHMM(e)
                /\ FaceSeconds(s) <= FaceSeconds(e))
                  => /\ last.ret = (/\ FaceSeconds(s) <= CurrentTime
                                    /\ CurrentTime <= FaceSeconds(e))
                     /\ s = e => (last.ret <=> CurrentTime = FaceSeconds(s))

\* The end of the window 02:00-10:30 was found inside it.
C19_Witness ==
    /\ last.op = "time_in_window"
    /\ config.maintenance_windows[1].start = HHMM(<<2, 0>>)
    /\ config.maintenance_windows[1].end = HHMM(<<10, 30>>)
    /\ CurrentTime = HMS(10, 30, 0)
    /\ last.ret

\* The window has a well-formed start and end and the time of day is inside it.
InsideWellFormed(w) ==
    \E s, e \in ClockFaces :
        /\ w.start = HHMM(s)
        /\ w.end = HHMM(e)
        /\ IF FaceSeconds(s) <= FaceSeconds(e)
           THEN FaceSeconds(s) <= CurrentTime /\ CurrentTime <= FaceSeconds(e)
           ELSE CurrentTime >= FaceSeconds(s) \/ CurrentTime <= FaceSeconds(e)

\* C20: a maintenance window whose start or end cannot be parsed as HH:MM
\* never matches, whatever the time; the call returns its answer all the same,
\* and the config is inside a maintenance window exactly when the time is
\* inside one of its well-formed windows, wherever the malformed ones stand in
\* the list (stated for windows that are for every day).
C20_MalformedWindow ==
    /\ WindowTried
          => LET w == config.maintenance_windows[1]
             IN  (w.start \in MalformedTimes \/ w.end \in MalformedTimes)
                    => last.ret = FALSE
    /\ (/\ last.op = "in_maintenance_window"
        /\ \A i \in 1..Len(config.maintenance_windows) :
              config.maintenance_windows[i].days = <<"*">>)
          => last.ret = (\E i \in 1..Len(config.maintenance_windows) :
                            InsideWellFormed(config.maintenance_windows[i]))

\* A malformed window came first in the list and the well-formed one after it
\* matched.
C20_Witness ==
    /\ last.op = "in_maintenance_window"
    /\ Len(config.maintenance_windows) = 2
    /\ config.maintenance_windows[1].start \in MalformedTimes
    /\ InsideWellFormed(config.maintenance_windows[2])
    /\ last.ret

\* The current day of the week as its three-letter abbreviation.
Today == DayNames[((LocalNow(now) \div SecondsPerDay) % 7) + 1]

\* The ways the configurations write the three days they name.
DaySpellings ==
    [sat |-> {"sat", "Sat", "SAT"}, sun |-> {"sun", "Sun", "SUN"},
     mon |-> {"mon", "Mon", "MON"}]

\* The window is for every day, or names today in some spelling.
DayMatches(w) ==
    \/ w.days = << >>
    \/ \E k \in 1..Len(w.days) :
          w.days[k] = "*" \/ w.days[k] \in DaySpellings[Today]

\* C21: the config is inside a maintenance window iff at least one of its
\* windows matches both by day ("*" among its days, the current day's
\* abbreviation among them in any letter case, or no days at all) and by time;
\* a config with no windows is never inside one.
C21_AnyWindowMatches ==
    /\ last.op = "in_maintenance_window"
          => last.ret = (\E i \in 1..Len(config.maintenance_windows) :
                            /\ DayMatches(config.maintenance_windows[i])
                            /\ InsideWellFormed(config.maintenance_windows[i]))
    /\ \A cfg \in Configs :
          cfg.maintenance_windows = << >> => ~in_maintenance_window(cfg, now)

\* The first window is for another day, the second names today in capitals
\* and matched.
C21_Witness ==
    /\ last.op = "in_maintenance_window"
    /\ Len(config.maintenance_windows) = 2
    /\ ~DayMatches(config.maintenance_windows[1])
    /\ InsideWellFormed(config.maintenance_windows[1])
    /\ config.maintenance_windows[2].days \in {<<"Sun">>, <<"SAT">>}
    /\ DayMatches(config.maintenance_windows[2])
    /\ last.ret

\* C22: a cycle whose loaded config selects no instances is skipped entirely.
\* The step of _poll_once taken with an empty selection evaluates no
\* maintenance window, fetches and observes nothing, leaves the decider, the
\* shutdown flag, the commands run and the stop signal as they were, and goes
\* to the wait of the loop.
C22_NoInstancesSkipped ==
    [][(/\ pc = "poll"
        /\ pc' # "poll"
        /\ config.selected_instances = << >>)
          => /\ last'.op = "no_instances"
             /\ pc' = "wait"
             /\ deadline' = now + wait_seconds(config)
             /\ decider' = decider
             /\ shutdown_initiated' = shutdown_initiated
             /\ commands' = commands
             /\ trig' = trig
             /\ stop' = stop]_vars

\* A cycle with no instances selected was skipped inside a maintenance window,
\* with the idle delay elapsed: the idle clock was not reset and nothing fired.
C22_Witness ==
    /\ last.op = "no_instances"
    /\ pc = "wait"
    /\ decider # None
    /\ in_maintenance_window(config, now)
    /\ now - decider.state.last_activity >= decider.idle_delta
    /\ ~decider.state.shutdown_triggered
    /\ commands = << >>

\* C23: after each cycle the loop waits max(5, pollIntervalSeconds) seconds of
\* the most recently loaded config, an interval below 5 counting as 5. The
\* wait entered at the end of a cycle is due that many seconds later, it is
\* left before it is due only when the stop signal is set, and run()'s config
\* is changed by nothing but a load.
C23_PollInterval ==
    /\ [][(pc' = "wait" /\ pc # "wait")
             => deadline' = now + (IF config'.poll_interval_seconds < 5 THEN 5
                                   ELSE config'.poll_interval_seconds)]_vars
    /\ [][(pc = "wait" /\ pc' # "wait") => (stop \/ now >= deadline)]_vars
    /\ [][config' # config
             => (pc \in {"start", "load"} /\ config' \in AllConfigs)]_vars

\* A wait for an interval of 0 seconds ended, uncancelled, when its 5 seconds
\* were over, in a cycle after the first.
C23_Witness ==
    /\ last.op = "wait_done"
    /\ ~stop
    /\ config.poll_interval_seconds = 0
    /\ deadline >= TickSeconds + 5
    /\ now >= deadline

\* The count the reply reports for instance i: the number, or the number a
\* string writes, found directly or under "players"; 0 when the reply holds
\* nothing for i or something that is not a count.
ReportedCount(i) ==
    LET items == response.items
        reported == IF i \notin DOMAIN items THEN JNull
                    ELSE IF \E p \in JsonScalars : items[i] = JDict(p)
                    THEN CHOOSE p \in JsonScalars : items[i] = JDict(p)
                    ELSE items[i]
        counts == {n \in 0..MaxCount : reported \in {JInt(n), JStr(Decimal(n))}}
    IN  IF counts = {} THEN 0 ELSE CHOOSE n \in counts : TRUE

\* C24: get_player_counts, given a reply that is a JSON object, returns a
\* mapping with exactly one entry for every requested instance: the reported
\* count when it resolves to an integer, directly or under "players", and 0
\* for every instance that is missing or not convertible; an empty request
\* returns an empty mapping.
C24_PlayerCounts ==
    (last.op # "init" /\ (response.is_dict \/ config.selected_instances = << >>))
        => /\ last.ret
           /\ DOMAIN last.counts = Selected(config)
           /\ \A i \in Selected(config) : last.counts[i] = ReportedCount(i)

\* C25: the idle delay is a minimum continuous duration. Whenever
\* register_observation returns true at time t during a Monitor run, the run
\* started, the last observation with a count above its threshold was
\* registered and the last cycle inside a maintenance window ran at least
\* idleDelay before t: none of them lies in the interval (t - idleDelay, t].
C25_MinimumIdleDuration ==
    (Registered /\ last.ret) => last.reset_at <= now - decider.idle_delta

\* The run saw activity after its start and fired a full idle delay later.
C25_Witness ==
    /\ Registered
    /\ last.ret
    /\ pc = "trigger"
    /\ last.reset_at > 0
    /\ now - last.reset_at >= decider.idle_delta
    /\ decider.state.last_activity = last.reset_at

\* C26: after a maintenance window no shutdown is triggered earlier than
\* idleDelay after the last cycle that ran inside the window, however long all
\* instances had been idle before and during the window.
C26_AfterMaintenance ==
    (Registered /\ last.ret /\ last.window_at >= 0)
        => now >= last.window_at + decider.idle_delta

\* The instances were idle for the whole run, a cycle ran inside the window
\* more than idleDelay after the start, and the run fired after the window.
C26_Witness ==
    /\ Registered
    /\ last.ret
    /\ last.window_at >= decider.idle_delta
    /\ last.reset_at = last.window_at
    /\ ~in_maintenance_window(config, now)
    /\ now >= last.window_at + decider.idle_delta

\* C27: the decider is constructed once, at the start of run(), with
\* lastActivity = the time of construction and the latch clear, from the
\* config loaded first; it exists from then on and later cycles do not
\* construct it again: a reload reaches it only through update_config, which
\* gives it the loaded config and the idle delay of that config and keeps its
\* state.
C27_DeciderConstructedOnce ==
    /\ [](pc \notin {"start", "raised"} => decider # None)
    /\ [][(decider = None /\ decider' # None)
             => /\ pc = "start"
                /\ decider'.state = [last_activity |-> now,
                                     shutdown_triggered |-> FALSE]
                /\ decider'.config = config']_vars
    /\ [][decider # None
             => /\ decider' # None
                /\ (pc = "load" /\ pc' = "poll")
                      => /\ decider'.config = config'
                         /\ decider'.idle_delta = idle_delta_of(config')
                         /\ decider'.state = decider.state
                /\ decider'.config # decider.config
                      => (pc = "load" /\ pc' = "poll")]_vars

\* A later cycle reloaded the config into a decider whose idle clock, older
\* than this cycle, and latch were kept.
C27_Witness ==
    /\ last.op = "update_config"
    /\ pc = "poll"
    /\ decider # None
    /\ decider.config = config
    /\ decider.state.last_activity < now
    /\ decider.state = last.before
    /\ last.reset_at < now

\* C28: each cycle reloads the config and applies it to the decider before the
\* observation of that cycle. The observation is made in the cycle of the
\* load, with the decider holding the loaded config and its idle delay, and
\* its outcome is the one the loaded thresholds and idle delay give: a count
\* above its loaded threshold is activity, and counts at or below the loaded
\* thresholds trigger as soon as the loaded idle delay has elapsed.
C28_HotReload ==
    /\ [](pc \in {"poll", "fetch"}
             => /\ decider.config = config
                /\ decider.idle_delta = idle_delta_of(config))
    /\ [][/\ (pc' = "poll" /\ pc # "poll") => pc = "load"
          /\ (pc' = "fetch" /\ pc # "fetch") => (pc = "poll" /\ config' = config)
          /\ last'.op = "register_observation"
                => (pc = "fetch" /\ config' = config)]_vars
    /\ [](Registered
             => /\ SomeAbove(config, last.counts)
                      => /\ ~last.ret
                         /\ decider.state.last_activity = now
                /\ AllAtOrBelow(config, last.counts)
                      => /\ decider.state.last_activity
                               = last.before.last_activity
                         /\ last.ret
                               = (/\ now - last.before.last_activity
                                        >= idle_delta_of(config)
                                  /\ ~last.before.shutdown_triggered))

\* A cycle has just loaded a shorter idle delay into the decider: the idle time
\* elapsed is below the delay the decider had and at or above the one loaded,
\* and the observation of the cycle is still to come.
C28_Witness ==
    /\ last.op = "update_config"
    /\ pc = "poll"
    /\ last.prev_delta > decider.idle_delta
    /\ now - decider.state.last_activity < last.prev_delta
    /\ now - decider.state.last_activity >= decider.idle_delta
    /\ ~decider.state.shutdown_triggered
    /\ config.selected_instances # << >>
    /\ ~in_maintenance_window(config, now)

\* C29: the latch is cleared only by an observation with a count above its
\* threshold. Once shutdownTriggered is true it stays true across empty
\* observations, idle observations, update_config and the reset of a cycle
\* inside a maintenance window, which moves lastActivity to the current time
\* and leaves the latch as it was.
C29_LatchClearedByActivityOnly ==
    /\ [][(/\ decider # None
           /\ decider.state.shutdown_triggered
           /\ ~decider'.state.shutdown_triggered)
             => /\ last'.op = "register_observation"
                /\ SomeAbove(decider.config, last'.counts)]_vars
    /\ []((last.op = "maintenance" /\ decider # None)
             => decider.state =
                   [last.before EXCEPT !.last_activity = now])

\* The reset of a maintenance window moved the idle clock of a decider whose
\* latch was set, and the latch is still set.
C29_Witness ==
    /\ last.op = "maintenance"
    /\ decider # None
    /\ last.before.shutdown_triggered
    /\ last.before.last_activity < now
    /\ decider.state.last_activity = now
    /\ decider.state.shutdown_triggered

\* C30: register_observation tolerates a count mapping that lacks some of the
\* selected instances. It looks at the entries present only: the call is
\* activity exactly when a present count is above its threshold, and it
\* returns true exactly when every present count is at or below its threshold,
\* the idle delay has elapsed and the latch is clear.
C30_MissingInstances ==
    (/\ Registered
     /\ DOMAIN last.counts # {}
     /\ Selected(decider.config) \ DOMAIN last.counts # {})
        => /\ SomeAbove(decider.config, last.counts)
                 => decider.state = [last_activity |-> now,
                                     shutdown_triggered |-> FALSE]
           /\ ~SomeAbove(decider.config, last.counts)
                 => decider.state.last_activity = last.before.last_activity
           /\ last.ret = (/\ \A i \in DOMAIN last.counts :
                                last.counts[i] <= EffectiveThreshold(decider.config, i)
                          /\ IdleElapsed
                          /\ ~last.before.shutdown_triggered)

\* Of the two selected instances only one had a count, and the call fired.
C30_Witness ==
    /\ Registered
    /\ decider.config.selected_instances = <<"a", "b">>
    /\ DOMAIN last.counts = {"a"}
    /\ last.ret

\* C31: the decider clamps the idle delay to at least one minute. With a
\* loaded idleDelayMinutes of 0 or less the effective delay is one minute,
\* and whatever the config register_observation never returns true while
\* now - lastActivity is under one minute.
C31_IdleDelayClamp ==
    decider # None =>
        /\ decider.config.idle_delay_minutes <= 0
              => decider.idle_delta = SecondsPerMinute
        /\ decider.idle_delta >= SecondsPerMinute
        /\ (Registered /\ last.ret)
              => now - last.before.last_activity >= SecondsPerMinute

\* With an idle delay of 0 minutes loaded, an idle observation made less than
\* a minute after the last activity did not fire.
C31_Witness ==
    /\ Registered
    /\ decider.config.idle_delay_minutes = 0
    /\ AllAtOrBelow(decider.config, last.counts)
    /\ ~last.before.shutdown_triggered
    /\ now - last.before.last_activity > 0
    /\ now - last.before.last_activity < SecondsPerMinute
    /\ ~last.ret

\* C32: liveness. In a run that is never cancelled, with a non-empty instance
\* selection, never inside a maintenance window, every fetch succeeding and
\* every count at or below its threshold, the loop eventually triggers the
\* shutdown and then terminates; it has not triggered before the idle delay
\* elapsed.
C32_IdleRunShutsDown ==
    /\ (decider # None /\ now <= LiveBy)
          ~> (pc = "done" /\ shutdown_initiated /\ decider.state.shutdown_triggered)
    /\ []((Registered /\ last.ret)
             => now - last.before.last_activity >= decider.idle_delta)
    /\ [](shutdown_initiated => decider.state.shutdown_triggered)

\* The idle run ended after it ran the shutdown command.
C32_Witness ==
    /\ pc = "done"
    /\ shutdown_initiated
    /\ decider.state.shutdown_triggered
    /\ last.reset_at <= LiveBy
    /\ Len(commands) = 1

\* The thread inside run() is within a cycle: past the loop test and before
\* the wait.
InCycle == pc \in {"load", "poll", "fetch", "trigger"}

\* With the stop event set, each step of the cycle in flight is taken as it is
\* without it.
CycleGoesOn ==
    /\ (stop /\ pc = "load") => ENABLED CycleLoad
    /\ (/\ stop /\ pc = "poll"
        /\ config.selected_instances # << >>
        /\ ~in_maintenance_window(config, now))
          => ENABLED (PollOnce /\ pc' = "fetch")
    /\ (stop /\ pc = "fetch" /\ decider # None)
          => ENABLED (PollFetch /\ last'.op = "register_observation")
    /\ (/\ stop /\ pc = "fetch" /\ decider # None
        /\ ~decider.state.shutdown_triggered
        /\ now - decider.state.last_activity >= decider.idle_delta)
          => ENABLED (PollFetch /\ last'.ret /\ pc' = "trigger")
    /\ (stop /\ trig[RunThread].pc = "check" /\ ~shutdown_initiated)
          => ENABLED (TriggerCheck(RunThread) /\ trig'[RunThread].pc = "set")
    /\ (stop /\ trig[RunThread].pc = "set")
          => ENABLED (TriggerSet(RunThread) /\ shutdown_initiated')
    /\ (stop /\ trig[RunThread].pc = "command")
          => ENABLED (/\ TriggerCommand(RunThread)
                      /\ Len(commands') = Len(commands) + 1)

\* C33: a stop request that arrives while a cycle is in progress does not
\* abort that cycle. With the stop event set, the cycle in flight goes on as
\* it would without it: it loads the config, passes a non-empty selection
\* outside every window on to the fetch, registers the counts (firing when the
\* idle delay has elapsed), sets the latch of _trigger_shutdown, runs the
\* command, and leaves the cycle only into the wait.
C33_StopDoesNotAbortCycle ==
    /\ []CycleGoesOn
    /\ [][(stop /\ InCycle /\ pc' # pc) => (InCycle' \/ pc' = "wait")]_vars

\* The stop was requested before the fetch of the cycle in flight; the cycle
\* has fetched the counts and the observation has fired.
C33_Witness ==
    /\ stop
    /\ Registered
    /\ last.ret
    /\ pc = "trigger"
    /\ trig[RunThread].pc = "check"
    /\ ~shutdown_initiated

====
